---- MODULE Spec2Model ----
(***************************************************************************)
(* A model of app.py: the WebflowAPI client (rate limiter, _make_request,  *)
(* clean_field_data, bulk create and update) and the Flask route handlers  *)
(* in front of it.                                                         *)
(*                                                                         *)
(* Python values are tagged records; a Python str is a sequence of         *)
(* one-character strings, so that startswith, endswith, strip and the JSON *)
(* parser are computed on the characters.  A Python dict with string keys  *)
(* is a function whose DOMAIN is its key set.  A message built by an       *)
(* f-string is a record of its format and its interpolated values.         *)
(***************************************************************************)
EXTENDS Integers, Sequences, FiniteSets, TLC

VARIABLES
    api_token,          \* WebflowAPI.api_token (os.getenv result)
    last_request_time,  \* WebflowAPI.last_request_time, in clock ticks
    now,                \* the value time.time() returns, in clock ticks
    network,            \* the upstream HTTP calls issued so far, in order,
                        \* each with the response the upstream gave it
    pc,                 \* per flow: the position of the flow in the code
    request,            \* per flow: the inbound request being handled
    frame,              \* per flow: locals of the bulk method and its route
    call,               \* per flow: arguments and locals of _make_request
    ret,                \* per flow: the value _make_request returned
    reply,              \* per flow: the HTTP response of the route handler
    field_data,         \* the argument of a direct clean_field_data call
    cleaned_data        \* the mapping that call returned

vars == <<api_token, last_request_time, now, network, pc, request, frame,
          call, ret, reply, field_data, cleaned_data>>

-----------------------------------------------------------------------------
(* Python values *)

None == [t |-> "none"]
Str(s) == [t |-> "str", s |-> s]
Num(n) == [t |-> "num", n |-> n]
List(l) == [t |-> "list", l |-> l]
Dict(items) == [t |-> "dict", items |-> items]

IsStr(v) == v.t = "str"
IsList(v) == v.t = "list"

\* "null" and "undefined" as Python strings
NULL_STR == <<"n", "u", "l", "l">>
UNDEFINED_STR == <<"u", "n", "d", "e", "f", "i", "n", "e", "d">>

\* the characters str.strip() removes, and those JSON allows between tokens
Whitespace == {" ", "\t", "\n", "\r", "\f"}
JsonWhitespace == {" ", "\t", "\n", "\r"}
\* characters json.loads (strict) rejects inside a string literal
ControlChars == {"\t", "\n", "\r", "\f"}
Digits == {"0", "1", "2", "3", "4", "5", "6", "7", "8", "9"}

MinOf(S) == CHOOSE x \in S : \A y \in S : x <= y
MaxOf(S) == CHOOSE x \in S : \A y \in S : x >= y

\* str.startswith / str.endswith with a one-character argument
startswith(s, c) == Len(s) >= 1 /\ s[1] = c
endswith(s, c) == Len(s) >= 1 /\ s[Len(s)] = c

\* str.strip(): the string without its leading and trailing whitespace
strip(s) ==
    LET solid == {i \in 1..Len(s) : s[i] \notin Whitespace}
    IN  IF solid = {} THEN <<>> ELSE SubSeq(s, MinOf(solid), MaxOf(solid))

-----------------------------------------------------------------------------
(* json.loads, for documents written with objects, strings without escape  *)
(* sequences, unsigned integers and null.                                  *)

ParseFail == [ok |-> FALSE, pos |-> 0, val |-> None]
ParseOk(p, v) == [ok |-> TRUE, pos |-> p, val |-> v]

\* index of the first character at or after i that is not JSON whitespace
SkipWs(s, i) ==
    LET rest == {j \in i..Len(s) : s[j] \notin JsonWhitespace}
    IN  IF rest = {} THEN Len(s) + 1 ELSE MinOf(rest)

CharAt(s, i) == IF i >= 1 /\ i <= Len(s) THEN s[i] ELSE ""

DigitValue(c) ==
    CASE c = "0" -> 0 [] c = "1" -> 1 [] c = "2" -> 2 [] c = "3" -> 3
      [] c = "4" -> 4 [] c = "5" -> 5 [] c = "6" -> 6 [] c = "7" -> 7
      [] c = "8" -> 8 [] c = "9" -> 9

RECURSIVE DecimalValue(_)
DecimalValue(ds) ==
    IF ds = <<>> THEN 0
    ELSE 10 * DecimalValue(SubSeq(ds, 1, Len(ds) - 1)) + DigitValue(ds[Len(ds)])

ParseString(s, i) ==
    IF CharAt(s, i) # "\"" THEN ParseFail
    ELSE LET closes == {j \in (i + 1)..Len(s) : s[j] = "\""}
         IN  IF closes = {} THEN ParseFail
             ELSE LET j == MinOf(closes)
                      body == SubSeq(s, i + 1, j - 1)
                  IN  IF \E k \in 1..Len(body) : body[k] \in ControlChars
                      THEN ParseFail
                      ELSE ParseOk(j + 1, Str(body))

\* an integer: a single 0, or a nonzero digit followed by digits
ParseNumber(s, i) ==
    IF CharAt(s, i) \notin Digits THEN ParseFail
    ELSE IF s[i] = "0" THEN ParseOk(i + 1, Num(0))
    ELSE LET stops == {j \in i..Len(s) : s[j] \notin Digits}
             end == IF stops = {} THEN Len(s) + 1 ELSE MinOf(stops)
         IN  ParseOk(end, Num(DecimalValue(SubSeq(s, i, end - 1))))

\* dict semantics of a repeated key: the last value, at the first position
DictPut(items, k, v) ==
    IF \E n \in 1..Len(items) : items[n].k = k
    THEN [n \in 1..Len(items) |->
            IF items[n].k = k THEN [k |-> k, v |-> v] ELSE items[n]]
    ELSE Append(items, [k |-> k, v |-> v])

RECURSIVE ParseValue(_, _)
RECURSIVE ParseMembers(_, _, _)

ParseObject(s, i) ==
    IF CharAt(s, i) # "{" THEN ParseFail
    ELSE LET j == SkipWs(s, i + 1)
         IN  IF CharAt(s, j) = "}" THEN ParseOk(j + 1, Dict(<<>>))
             ELSE ParseMembers(s, j, <<>>)

ParseMembers(s, j, acc) ==
    LET key == ParseString(s, j)
    IN  IF ~key.ok THEN ParseFail
        ELSE LET colon == SkipWs(s, key.pos)
             IN  IF CharAt(s, colon) # ":" THEN ParseFail
                 ELSE LET v == ParseValue(s, SkipWs(s, colon + 1))
                      IN  IF ~v.ok THEN ParseFail
                          ELSE LET m == SkipWs(s, v.pos)
                                   got == DictPut(acc, key.val.s, v.val)
                               IN  IF CharAt(s, m) = "}"
                                   THEN ParseOk(m + 1, Dict(got))
                                   ELSE IF CharAt(s, m) = ","
                                   THEN ParseMembers(s, SkipWs(s, m + 1), got)
                                   ELSE ParseFail

ParseValue(s, i) ==
    CASE CharAt(s, i) = "{" -> ParseObject(s, i)
      [] CharAt(s, i) = "\"" -> ParseString(s, i)
      [] CharAt(s, i) \in Digits -> ParseNumber(s, i)
      [] CharAt(s, i) = "n" ->
            IF i + 3 <= Len(s) /\ SubSeq(s, i, i + 3) = NULL_STR
            THEN ParseOk(i + 4, None) ELSE ParseFail
      [] OTHER -> ParseFail

\* json.loads(s): ok is FALSE where the code gets json.JSONDecodeError
json_loads(s) ==
    LET v == ParseValue(s, SkipWs(s, 1))
    IN  IF v.ok /\ SkipWs(s, v.pos) = Len(s) + 1 THEN v ELSE ParseFail

-----------------------------------------------------------------------------
(* WebflowAPI.clean_field_data *)

ReferenceFields == {"tags", "gallery", "categories"}

\* CleanField omitting empty strings and empty lists under any key
CleanField_AnyKey(key, value) ==
    LET skip == [keep |-> FALSE, value |-> None]
        asis == [keep |-> TRUE, value |-> value]
    IN  IF IsStr(value) /\ (value.s = NULL_STR \/ value.s = UNDEFINED_STR)
        THEN skip
        ELSE IF value = None THEN skip
        ELSE IF /\ IsStr(value)
                /\ startswith(value.s, "{") /\ endswith(value.s, "}")
                /\ json_loads(value.s).ok
        THEN [keep |-> TRUE, value |-> json_loads(value.s).val]
        ELSE IF IsStr(value) /\ strip(value.s) = <<>> THEN skip
        ELSE IF IsList(value) /\ Len(value.l) = 0 THEN skip
        ELSE asis

\* one iteration of the loop over field_data.items(): whether the key is
\* written to cleaned_data, and with which value
CleanField(key, value) ==
    LET skip == [keep |-> FALSE, value |-> None]
        asis == [keep |-> TRUE, value |-> value]
    IN  IF IsStr(value) /\ (value.s = NULL_STR \/ value.s = UNDEFINED_STR)
        THEN skip
        ELSE IF value = None THEN skip
        ELSE IF /\ IsStr(value)
                /\ startswith(value.s, "{") /\ endswith(value.s, "}")
                /\ json_loads(value.s).ok
        THEN [keep |-> TRUE, value |-> json_loads(value.s).val]
        ELSE IF IsStr(value) /\ strip(value.s) = <<>> /\ key \in ReferenceFields
        THEN skip
        ELSE IF IsList(value) /\ Len(value.l) = 0 /\ key \in ReferenceFields
        THEN skip
        ELSE asis

clean_field_data(fd) ==
    LET kept == {k \in DOMAIN fd : CleanField(k, fd[k]).keep}
    IN  [k \in kept |-> CleanField(k, fd[k]).value]

-----------------------------------------------------------------------------
(* Bounds of the model *)

\* clock resolution: time.time() is read in ticks of 1/TicksPerSecond s
TicksPerSecond == 2
\* clock ticks the timed specification lets pass freely after start-up
Horizon == 4
\* upstream calls after which a timed flow takes no further request
MaxCalls == 2
\* the longest item list submitted to a bulk route
MaxItems == 201
\* the most fields of a mapping handed to clean_field_data directly
MaxFields == 2

(* Program constants *)

min_delay == 1
extra_delay == 2
low_water_mark == 10
chunk_size == 100
create_chunk_size == 100

\* The clock starts at StartTime; last_request_time starts at 0 (epoch), so
\* the first call of a process always finds elapsed >= min_delay.
StartTime == min_delay * TicksPerSecond
MaxTime == StartTime + Horizon
Seconds(n) == n * TicksPerSecond

Flows == {"a", "b"}
MainFlow == "a"

-----------------------------------------------------------------------------
(* Small Python helpers *)

\* dict.get(key, default)
Get(d, key, default) == IF key \in DOMAIN d THEN d[key] ELSE default

\* Slice with the end of the slice one item too far
Slice_OneTooMany(items, i, size) ==
    SubSeq(items, i + 1,
           IF i + size + 1 < Len(items) THEN i + size + 1 ELSE Len(items))

\* Slice giving nothing where fewer than size items remain
Slice_DropRemainder(items, i, size) ==
    IF i + size <= Len(items) THEN SubSeq(items, i + 1, i + size) ELSE <<>>

\* items[i:i + size] for a 0-based start i
Slice(items, i, size) ==
    SubSeq(items, i + 1, IF i + size < Len(items) THEN i + size ELSE Len(items))

\* int(s) of a header value: ok is FALSE where Python raises ValueError
int_of(s) ==
    IF s # <<>> /\ \A k \in 1..Len(s) : s[k] \in Digits
    THEN [ok |-> TRUE, n |-> DecimalValue(s)]
    ELSE [ok |-> FALSE, n |-> 0]

-----------------------------------------------------------------------------
(* Upstream responses *)

\* response.json(): a dict, another JSON value, or a decode error
JsonObject(d) == [ok |-> TRUE, isdict |-> TRUE, d |-> d]
JsonArray == [ok |-> TRUE, isdict |-> FALSE, d |-> <<>>]
JsonInvalid == [ok |-> FALSE, isdict |-> FALSE, d |-> <<>>]

\* headers are a dict of strings; a header that was not sent is no key
Response(status, body, headers) ==
    [status_code |-> status, json |-> body, headers |-> headers]

NoHeaders == <<>>
RetryAfter(v) == "Retry-After" :> v
Remaining(v) == "X-RateLimit-Remaining" :> v

Payload ==
    JsonObject([sites |-> <<"site1">>, collections |-> <<"col1">>,
                items |-> <<"it1">>, pagination |-> <<"page">>])
ErrorBodies ==
    { JsonObject([message |-> "Validation Error", details |-> <<"field">>]),
      JsonObject([message |-> "Validation Error"]),
      JsonObject([errors |-> <<"slug">>]),
      JsonObject([details |-> <<"field">>, errors |-> <<"slug">>]),
      JsonObject(<<>>) }
Bodies == {Payload, JsonArray, JsonInvalid} \cup ErrorBodies

HeaderSets ==
    { NoHeaders } \cup
    { Remaining(v) : v \in {<<>>, <<"5">>, <<"9">>, <<"1", "0">>, <<"x">>} } \cup
    { RetryAfter(<<"4", "5">>),
      RetryAfter(<<"4", "5">>) @@ Remaining(<<"5">>) }

\* every combination: used where a single call is classified
Responses ==
    { Response(st, b, h) :
        st \in {200, 201, 399, 400, 401, 404, 429, 500}, b \in Bodies,
        h \in HeaderSets }

\* a representative of each outcome: used where several calls follow another
CoreResponses ==
    { Response(200, Payload, NoHeaders),
      Response(200, JsonArray, NoHeaders),
      Response(401, JsonObject([message |-> "Validation Error"]), NoHeaders),
      Response(400, JsonObject([message |-> "Validation Error",
                                details |-> <<"field">>]), NoHeaders),
      Response(200, Payload, Remaining(<<"x">>)) }

\* the outcomes that matter to timing
TimedResponses ==
    { Response(200, Payload, NoHeaders),
      Response(200, Payload, Remaining(<<"5">>)) }

NoResponse == Response(0, JsonInvalid, NoHeaders)

\* exceptions requests raises instead of returning a response
TransportErrors == {"Timeout", "ConnectionError", "RequestException"}
CoreErrors == {"Timeout"}

-----------------------------------------------------------------------------
(* Result dicts of _make_request and of the bulk methods *)

\* an f-string: its template and the values interpolated into it
Msg(fmt, args) == [fmt |-> fmt, args |-> args]
Text(s) == Msg(s, <<>>)

Success(data) == [success |-> TRUE, data |-> data]
Failure(error) == [success |-> FALSE, error |-> error]
FailureStatus(error, code) ==
    [success |-> FALSE, error |-> error, status_code |-> code]
FailureDetails(error, details, code) ==
    [success |-> FALSE, error |-> error, details |-> details,
     status_code |-> code]

TOKEN_ERROR == Text("API token not configured")
INVALID_TOKEN == Text("Invalid API token. Please check your Webflow API token.")
NOT_FOUND == Text("Resource not found. Please verify site/collection IDs.")

\* Truthy taking only None for falsy
Truthy_NotNone(v) == v # None

\* Python truthiness of api_token: None and '' are falsy
Truthy(v) == v # None /\ ~(IsStr(v) /\ v.s = <<>>)

-----------------------------------------------------------------------------
(* WebflowAPI._make_request: classification of a received response *)

\* the except clause that catches response.json() failing on a status < 400:
\* requests >= 2.27 raises a RequestException subclass, older versions
\* json.JSONDecodeError
DecodeErrorClasses == {"json.JSONDecodeError", "requests.JSONDecodeError"}

\* lines 100-128: a status >= 400 other than 401, 404, 429
ClassifyClientError(resp) ==
    IF resp.json.ok /\ resp.json.isdict
    THEN LET response_data == resp.json.d
             error_msg ==
                 IF "message" \in DOMAIN response_data
                 THEN Text(response_data["message"])
                 ELSE Msg("HTTP {status_code} error", <<resp.status_code>>)
         IN  IF "details" \in DOMAIN response_data
                \/ "errors" \in DOMAIN response_data
             THEN FailureDetails(
                      error_msg,
                      Get(response_data, "details",
                          Get(response_data, "errors", <<>>)),
                      resp.status_code)
             ELSE FailureStatus(error_msg, resp.status_code)
    ELSE Failure(Msg("HTTP {status_code} error - could not parse response",
                     <<resp.status_code>>))

\* Classify testing the status >= 400 before the fixed statuses
Classify_ClientErrorFirst(resp, decode_error) ==
    IF resp.status_code >= 400 /\ resp.json.ok /\ resp.json.isdict
    THEN ClassifyClientError(resp)
    ELSE IF resp.status_code = 401 THEN Failure(INVALID_TOKEN)
    ELSE IF resp.status_code = 404 THEN Failure(NOT_FOUND)
    ELSE IF resp.status_code = 429
    THEN Failure(Msg("Rate limit exceeded. Please wait {retry_after} seconds.",
                     <<Get(resp.headers, "Retry-After", <<"6", "0">>)>>))
    ELSE IF resp.status_code >= 400 THEN ClassifyClientError(resp)
    ELSE IF resp.json.ok THEN Success(resp.json)
    ELSE IF decode_error = "requests.JSONDecodeError"
    THEN Failure(Msg("Network error: {e}", <<decode_error>>))
    ELSE Failure(Text("Invalid JSON response from Webflow API"))

\* lines 86-133 and the handlers of 143-150 that response.json() can reach
Classify(resp, decode_error) ==
    IF resp.status_code = 401 THEN Failure(INVALID_TOKEN)
    ELSE IF resp.status_code = 404 THEN Failure(NOT_FOUND)
    ELSE IF resp.status_code = 429
    THEN Failure(Msg("Rate limit exceeded. Please wait {retry_after} seconds.",
                     <<Get(resp.headers, "Retry-After", <<"6", "0">>)>>))
    ELSE IF resp.status_code >= 400 THEN ClassifyClientError(resp)
    ELSE IF resp.json.ok THEN Success(resp.json)
    ELSE IF decode_error = "requests.JSONDecodeError"
    THEN Failure(Msg("Network error: {e}", <<decode_error>>))
    ELSE Failure(Text("Invalid JSON response from Webflow API"))

\* lines 135-146: an exception of requests.get / post / patch
TransportFailure(exc) ==
    CASE exc = "Timeout" ->
            Failure(Text("Request timeout - Webflow API took too long to respond"))
      [] exc = "ConnectionError" ->
            Failure(Text("Connection error - Unable to reach Webflow API"))
      [] OTHER -> Failure(Msg("Network error: {e}", <<exc>>))

\* lines 79-84: what the X-RateLimit-Remaining header makes the flow do
\* before the status is looked at
RemainingAction(headers) ==
    LET remaining == Get(headers, "X-RateLimit-Remaining", <<>>)
    IN  IF remaining = <<>> THEN "none"
        ELSE IF ~int_of(remaining).ok THEN "raise"
        ELSE IF int_of(remaining).n < low_water_mark THEN "sleep"
        ELSE "none"

\* RateLimitSleep waiting half of what is missing
RateLimitSleep_Half(time_since_last_request) ==
    IF time_since_last_request < Seconds(min_delay)
    THEN (Seconds(min_delay) - time_since_last_request) \div 2
    ELSE 0

\* lines 34-39: the ticks _rate_limit_delay sleeps, given the ticks elapsed
\* since last_request_time
RateLimitSleep(time_since_last_request) ==
    IF time_since_last_request < Seconds(min_delay)
    THEN Seconds(min_delay) - time_since_last_request
    ELSE 0

-----------------------------------------------------------------------------
(* Per-flow state *)

NoCall ==
    [method |-> "", endpoint |-> Text(""), data |-> None, params |-> None,
     current_time |-> 0,
     time_since_last_request |-> 0, wake |-> 0, after |-> "",
     response |-> NoResponse]
NoResult == [success |-> FALSE, error |-> Text("")]
NoFrame == [items_data |-> <<>>, clean_items |-> <<>>, i |-> 0, results |-> <<>>]
NoRequest == [route |-> "", args |-> <<>>, body |-> ""]
NoReply == [status |-> 0, body |-> <<>>]

\* the call frame of _make_request(method, endpoint, data, params)
NewCall(method, endpoint, data, params) ==
    [NoCall EXCEPT !.method = method, !.endpoint = endpoint, !.data = data,
                   !.params = params]

\* one upstream HTTP call as the network sees it; the response is filled in
\* when the upstream answers
Wire(f, c, at) ==
    [flow |-> f, method |-> c.method, endpoint |-> c.endpoint,
     data |-> c.data, params |-> c.params, at |-> at,
     response |-> NoResponse]

\* the position in network of the latest call of flow f
LastCall(f) == MaxOf({k \in 1..Len(network) : network[k].flow = f})

TokenValues == {None, Str(<<>>), Str(<<"t", "o", "k">>)}

InitProgram ==
    /\ api_token \in TokenValues
    /\ last_request_time = 0
    /\ now = StartTime
    /\ network = <<>>
    /\ pc = [f \in Flows |-> "idle"]
    /\ request = [f \in Flows |-> NoRequest]
    /\ frame = [f \in Flows |-> NoFrame]
    /\ call = [f \in Flows |-> NoCall]
    /\ ret = [f \in Flows |-> NoResult]
    /\ reply = [f \in Flows |-> NoReply]

cleanVars == <<field_data, cleaned_data>>
flowVars == <<request, frame, reply>>

-----------------------------------------------------------------------------
(* WebflowAPI._make_request, step by step *)

\* lines 45-49: without a token the call fails before anything else
MakeRequest(f) ==
    /\ pc[f] = "make_request"
    /\ IF ~Truthy(api_token)
       THEN /\ ret' = [ret EXCEPT ![f] = Failure(TOKEN_ERROR)]
            /\ pc' = [pc EXCEPT ![f] = "returned"]
       ELSE /\ pc' = [pc EXCEPT ![f] = "rate_limit"]
            /\ UNCHANGED ret
    /\ UNCHANGED <<api_token, last_request_time, now, network, call,
                   flowVars, cleanVars>>

\* lines 34-39: read the clock and the shared timestamp, sleep if too early
RateLimitDelay(f) ==
    /\ pc[f] = "rate_limit"
    /\ LET current_time == now
           time_since_last_request == current_time - last_request_time
           sleep == RateLimitSleep(time_since_last_request)
       IN  /\ call' = [call EXCEPT
                  ![f].current_time = current_time,
                  ![f].time_since_last_request = time_since_last_request,
                  ![f].wake = now + sleep,
                  ![f].after = "send"]
           /\ pc' = [pc EXCEPT ![f] = IF sleep > 0 THEN "sleep" ELSE "send"]
    /\ UNCHANGED <<api_token, last_request_time, now, network, ret,
                   flowVars, cleanVars>>

\* time.sleep returns: the clock reads at least the wake-up time
SleepReturn(f) ==
    /\ pc[f] = "sleep"
    /\ now' = IF now < call[f].wake THEN call[f].wake ELSE now
    /\ pc' = [pc EXCEPT ![f] = call[f].after]
    /\ UNCHANGED <<api_token, last_request_time, network, call, ret,
                   flowVars, cleanVars>>

\* lines 41-73: the shared timestamp becomes the current time and the HTTP
\* call goes out (or the method is refused); only logging lies in between
SendRequest(f) ==
    /\ pc[f] = "send"
    /\ last_request_time' = now
    /\ call' = [call EXCEPT ![f].current_time = 0,
                            ![f].time_since_last_request = 0,
                            ![f].wake = 0, ![f].after = ""]
    /\ IF call[f].method \in {"GET", "POST", "PATCH"}
       THEN /\ network' = Append(network, Wire(f, call[f], now))
            /\ pc' = [pc EXCEPT ![f] = "await"]
            /\ UNCHANGED ret
       ELSE /\ ret' = [ret EXCEPT ![f] =
                  Failure(Msg("Unsupported method: {method}",
                              <<call[f].method>>))]
            /\ pc' = [pc EXCEPT ![f] = "returned"]
            /\ UNCHANGED network
    /\ UNCHANGED <<api_token, now, flowVars, cleanVars>>

\* lines 76-84: a response arrives; the remaining-quota header is read
ReceiveResponse(f, responses) ==
    /\ pc[f] = "await"
    /\ \E resp \in responses :
         LET todo == RemainingAction(resp.headers)
         IN  /\ network' = [network EXCEPT ![LastCall(f)].response = resp]
             /\ call' = [call EXCEPT
                    ![f].response = resp,
                    ![f].wake = IF todo = "sleep"
                                THEN now + Seconds(extra_delay) ELSE 0,
                    ![f].after = IF todo = "sleep" THEN "classify" ELSE ""]
             /\ pc' = [pc EXCEPT ![f] =
                    CASE todo = "sleep" -> "sleep"
                      [] todo = "raise" -> "returned"
                      [] OTHER -> "classify"]
             /\ ret' = [ret EXCEPT ![f] =
                    IF todo = "raise"
                    THEN Failure(Msg("Unexpected error: {e}", <<"ValueError">>))
                    ELSE @]
    /\ UNCHANGED <<api_token, last_request_time, now, flowVars, cleanVars>>

\* lines 135-146: requests raises instead of returning a response
TransportError(f, errors) ==
    /\ pc[f] = "await"
    /\ \E exc \in errors :
         ret' = [ret EXCEPT ![f] = TransportFailure(exc)]
    /\ pc' = [pc EXCEPT ![f] = "returned"]
    /\ UNCHANGED <<api_token, last_request_time, now, network, call,
                   flowVars, cleanVars>>

\* lines 86-133: the response becomes a result dict
ClassifyResponse(f) ==
    /\ pc[f] = "classify"
    /\ \E decode_error \in DecodeErrorClasses :
         ret' = [ret EXCEPT ![f] = Classify(call[f].response, decode_error)]
    /\ pc' = [pc EXCEPT ![f] = "returned"]
    /\ UNCHANGED <<api_token, last_request_time, now, network, call,
                   flowVars, cleanVars>>

-----------------------------------------------------------------------------
(* WebflowAPI.update_collection_items and create_collection_items *)

Has(item, key) == key \in DOMAIN item

ItemsEndpoint(collection_id) ==
    Msg("/collections/{collection_id}/items", <<collection_id>>)

\* ValidateUpdate looking only at the items of the first chunk
ValidateUpdate_FirstChunkOnly(items_data) ==
    LET bad == {n \in 1..Len(items_data) :
                   /\ n <= chunk_size
                   /\ ~Has(items_data[n], "id") \/ ~Has(items_data[n], "fieldData")}
    IN  IF bad = {} THEN <<>>
        ELSE << Failure(Msg("Item {i} missing required id field",
                            <<MinOf(bad) - 1>>)) >>

\* lines 178-184: the single failure result of the first item (0-based i)
\* that lacks 'id' or 'fieldData'; <<>> when every item passes
ValidateUpdate(items_data) ==
    LET bad == {n \in 1..Len(items_data) :
                   ~Has(items_data[n], "id") \/ ~Has(items_data[n], "fieldData")}
    IN  IF bad = {} THEN <<>>
        ELSE LET n == MinOf(bad)
                 item == items_data[n]
             IN  IF ~Has(item, "id")
                 THEN << Failure(Msg("Item {i} missing required id field",
                                     <<n - 1>>)) >>
                 ELSE << Failure(Msg("Item {id} missing required fieldData field",
                                     <<item["id"]>>)) >>

\* lines 293-296
ValidateCreate(items_data) ==
    LET bad == {n \in 1..Len(items_data) : ~Has(items_data[n], "fieldData")}
    IN  IF bad = {} THEN <<>>
        ELSE << Failure(Msg("New item {i} missing required fieldData field",
                            <<MinOf(bad) - 1>>)) >>

NonEmptyFields(item) == DOMAIN item["fieldData"] # {}

\* lines 198-207: the items of a chunk that keep some field after cleaning,
\* each with its id and its cleaned fieldData
CleanUpdateChunk(chunk) ==
    SelectSeq([n \in 1..Len(chunk) |->
                  [id |-> chunk[n]["id"],
                   fieldData |-> clean_field_data(chunk[n]["fieldData"])]],
              NonEmptyFields)

\* lines 299-306: the same over the whole list, keeping only fieldData
CleanCreateItems(items_data) ==
    SelectSeq([n \in 1..Len(items_data) |->
                  [fieldData |-> clean_field_data(items_data[n]["fieldData"])]],
              NonEmptyFields)

NO_VALID_ITEMS == [success |-> TRUE, message |-> "No valid items to update in chunk"]

\* lines 175-189: validation; a failure returns straight to the route
UpdateBegin(f) ==
    /\ pc[f] = "update_begin"
    /\ LET invalid == ValidateUpdate(frame[f].items_data)
       IN  IF invalid # <<>>
           THEN /\ frame' = [frame EXCEPT ![f].results = invalid]
                /\ pc' = [pc EXCEPT ![f] = "update_respond"]
           ELSE /\ frame' = [frame EXCEPT ![f].results = <<>>, ![f].i = 0]
                /\ pc' = [pc EXCEPT ![f] = "update_loop"]
    /\ UNCHANGED <<api_token, last_request_time, now, network, call, ret,
                   request, reply, cleanVars>>

\* lines 191-225 and 236-240: one iteration of the chunk loop up to the call
\* of _make_request, or the end of the loop
UpdateChunk(f) ==
    /\ pc[f] = "update_loop"
    /\ LET fr == frame[f]
           chunk == Slice(fr.items_data, fr.i, chunk_size)
           cleaned_chunk == CleanUpdateChunk(chunk)
       IN  IF fr.i >= Len(fr.items_data)
           THEN /\ pc' = [pc EXCEPT ![f] = "update_respond"]
                /\ UNCHANGED <<frame, call>>
           ELSE IF cleaned_chunk = <<>>
           THEN /\ frame' = [frame EXCEPT
                       ![f].results = Append(@, NO_VALID_ITEMS),
                       ![f].i = @ + chunk_size]
                /\ UNCHANGED <<pc, call>>
           ELSE /\ call' = [call EXCEPT ![f] =
                       NewCall("PATCH", ItemsEndpoint("col1"),
                               [items |-> cleaned_chunk], None)]
                /\ pc' = [pc EXCEPT ![f] = "make_request"]
                /\ UNCHANGED frame
    /\ UNCHANGED <<api_token, last_request_time, now, network, ret,
                   request, reply, cleanVars>>

\* UpdateChunkDone leaving the loop when the call has failed
UpdateChunkDone_AbortOnFailure(f) ==
    /\ pc[f] = "returned"
    /\ request[f].route = "update_collection_items"
    /\ frame' = [frame EXCEPT
           ![f].results = Append(@, ret[f]),
           ![f].i = IF ret[f]["success"] THEN @ + chunk_size
                    ELSE Len(frame[f].items_data)]
    /\ call' = [call EXCEPT ![f] = NoCall]
    /\ ret' = [ret EXCEPT ![f] = NoResult]
    /\ pc' = [pc EXCEPT ![f] = "update_loop"]
    /\ UNCHANGED <<api_token, last_request_time, now, network, request,
                   reply, cleanVars>>

\* lines 227-234: the result of the call is appended, whatever it is
UpdateChunkDone(f) ==
    /\ pc[f] = "returned"
    /\ request[f].route = "update_collection_items"
    /\ frame' = [frame EXCEPT ![f].results = Append(@, ret[f]),
                              ![f].i = @ + chunk_size]
    /\ call' = [call EXCEPT ![f] = NoCall]
    /\ ret' = [ret EXCEPT ![f] = NoResult]
    /\ pc' = [pc EXCEPT ![f] = "update_loop"]
    /\ UNCHANGED <<api_token, last_request_time, now, network, request,
                   reply, cleanVars>>

\* lines 290-311: validation, then cleaning of the whole list
CreateBegin(f) ==
    /\ pc[f] = "create_begin"
    /\ LET invalid == ValidateCreate(frame[f].items_data)
       IN  IF invalid # <<>>
           THEN /\ frame' = [frame EXCEPT ![f].results = invalid]
                /\ pc' = [pc EXCEPT ![f] = "create_respond"]
           ELSE /\ frame' = [frame EXCEPT
                       ![f].clean_items = CleanCreateItems(frame[f].items_data),
                       ![f].results = <<>>, ![f].i = 0]
                /\ pc' = [pc EXCEPT ![f] = "create_loop"]
    /\ UNCHANGED <<api_token, last_request_time, now, network, call, ret,
                   request, reply, cleanVars>>

\* lines 313-325 and 336-340
CreateChunk(f) ==
    /\ pc[f] = "create_loop"
    /\ LET fr == frame[f]
           chunk == Slice(fr.clean_items, fr.i, create_chunk_size)
       IN  IF fr.i >= Len(fr.clean_items)
           THEN /\ pc' = [pc EXCEPT ![f] = "create_respond"]
                /\ UNCHANGED call
           ELSE /\ call' = [call EXCEPT ![f] =
                       NewCall("POST", ItemsEndpoint("col1"),
                               [items |-> chunk], None)]
                /\ pc' = [pc EXCEPT ![f] = "make_request"]
    /\ UNCHANGED <<api_token, last_request_time, now, network, ret,
                   flowVars, cleanVars>>

\* lines 327-334
CreateChunkDone(f) ==
    /\ pc[f] = "returned"
    /\ request[f].route = "create_collection_items"
    /\ frame' = [frame EXCEPT ![f].results = Append(@, ret[f]),
                              ![f].i = @ + create_chunk_size]
    /\ call' = [call EXCEPT ![f] = NoCall]
    /\ ret' = [ret EXCEPT ![f] = NoResult]
    /\ pc' = [pc EXCEPT ![f] = "create_loop"]
    /\ UNCHANGED <<api_token, last_request_time, now, network, request,
                   reply, cleanVars>>

-----------------------------------------------------------------------------
(* Inbound requests *)

\* the item lists submitted to the bulk routes: a length, a pattern of items
\* that keep or lose all their fields in cleaning, and at most one item of a
\* special shape at a chosen position
Lens == {n \in {0, 1, 6, chunk_size, chunk_size + 1, 150} : n <= MaxItems}
            \cup {MaxItems}
Patterns == {"all_kept", "all_dropped", "first_chunk_dropped", "odd_dropped",
             "first_dropped", "first_id_empty"}
SpecialKinds == {"no_id", "no_fieldData", "bare"}
SpecialPositions(n) ==
    {p \in {1, chunk_size + 1, n} : p <= n}

IdOf(n) == "item" \o ToString(n)
KeptFields(n) == [name |-> Str(<<"v">>), order |-> Num(n)]
DroppedFields ==
    [tags |-> Str(<<" ">>), gallery |-> List(<<>>), summary |-> None,
     title |-> Str(NULL_STR)]

Drops(pattern, n) ==
    CASE pattern = "all_dropped" -> TRUE
      [] pattern = "first_chunk_dropped" -> n <= chunk_size
      [] pattern = "odd_dropped" -> n % 2 = 1
      [] pattern = "first_dropped" -> n = 1
      [] OTHER -> FALSE

SpecialItem(kind, n) ==
    CASE kind = "no_id" -> [fieldData |-> KeptFields(n)]
      [] kind = "no_fieldData" -> [id |-> IdOf(n)]
      [] OTHER -> <<>>

ItemList(n, pattern, pos, kind) ==
    [k \in 1..n |->
        IF k = pos THEN SpecialItem(kind, k)
        ELSE IF Drops(pattern, k)
        THEN [id |-> IdOf(k), fieldData |-> DroppedFields]
        ELSE IF pattern = "first_id_empty" /\ k = 1
        THEN [id |-> "", fieldData |-> KeptFields(k)]
        ELSE [id |-> IdOf(k), fieldData |-> KeptFields(k)]]

\* request.args of GET .../items
QueryArgs ==
    { <<>>, [limit |-> <<"1", "0">>, offset |-> <<"2", "0">>],
      [limit |-> <<"x">>], [offset |-> <<"1", "0", "0">>] }

\* the body of POST .../publish
PublishBodies == {"malformed", "empty_object", "custom_domains"}

-----------------------------------------------------------------------------
(* Route handlers *)

JsonReply(status, body) == [status |-> status, body |-> body]
\* what Flask answers when a handler raises
ServerErrorPage == [status |-> 500, body |-> [html |-> "Internal Server Error"]]

\* the handler calls into WebflowAPI, which calls _make_request
Enter(f, route, args, body, c) ==
    /\ pc[f] = "idle"
    /\ request' = [request EXCEPT ![f] =
           [route |-> route, args |-> args, body |-> body]]
    /\ call' = [call EXCEPT ![f] = c]
    /\ pc' = [pc EXCEPT ![f] = "make_request"]
    /\ UNCHANGED <<api_token, last_request_time, now, network, ret, frame,
                   reply, cleanVars>>

\* the handler returns its response
Respond(f, r) ==
    /\ reply' = [reply EXCEPT ![f] = r]
    /\ call' = [call EXCEPT ![f] = NoCall]
    /\ ret' = [ret EXCEPT ![f] = NoResult]
    /\ pc' = [pc EXCEPT ![f] = "done"]
    /\ UNCHANGED <<api_token, last_request_time, now, network, cleanVars>>

\* _make_request has returned to the handler of this route
Returned(f, route) == pc[f] = "returned" /\ request[f].route = route

ErrorReply(result) ==
    JsonReply(400, [success |-> FALSE, error |-> result["error"]])

\* lines 360-367; result['data'].get raises AttributeError when the payload
\* is not a dict
get_sites(f) ==
    \/ Enter(f, "get_sites", <<>>, "", NewCall("GET", Text("/sites"), None, None))
    \/ /\ Returned(f, "get_sites")
       /\ Respond(f, IF ~ret[f]["success"] THEN ErrorReply(ret[f])
                     ELSE IF ~ret[f]["data"].isdict THEN ServerErrorPage
                     ELSE JsonReply(200,
                              [success |-> TRUE,
                               sites |-> Get(ret[f]["data"].d, "sites", <<>>)]))
       /\ UNCHANGED <<request, frame>>

\* lines 370-377
get_collections(f) ==
    \/ Enter(f, "get_collections", <<>>, "",
             NewCall("GET", Msg("/sites/{site_id}/collections", <<"site1">>),
                     None, None))
    \/ /\ Returned(f, "get_collections")
       /\ Respond(f, IF ~ret[f]["success"] THEN ErrorReply(ret[f])
                     ELSE IF ~ret[f]["data"].isdict THEN ServerErrorPage
                     ELSE JsonReply(200,
                              [success |-> TRUE,
                               collections |->
                                   Get(ret[f]["data"].d, "collections", <<>>)]))
       /\ UNCHANGED <<request, frame>>

\* lines 380-386
get_collection_schema(f) ==
    \/ Enter(f, "get_collection_schema", <<>>, "",
             NewCall("GET", Msg("/collections/{collection_id}", <<"col1">>),
                     None, None))
    \/ /\ Returned(f, "get_collection_schema")
       /\ Respond(f, IF ret[f]["success"]
                     THEN JsonReply(200, [success |-> TRUE,
                                          collection |-> ret[f]["data"]])
                     ELSE ErrorReply(ret[f]))
       /\ UNCHANGED <<request, frame>>

\* lines 389-402: int() of a query argument that is no integer raises
get_collection_items(f) ==
    \/ \E args \in QueryArgs :
         LET limit == Get(args, "limit", <<"1", "0", "0">>)
             offset == Get(args, "offset", <<"0">>)
         IN  IF int_of(limit).ok /\ int_of(offset).ok
             THEN Enter(f, "get_collection_items", args, "",
                        NewCall("GET", ItemsEndpoint("col1"), None,
                                [limit |-> int_of(limit).n,
                                 offset |-> int_of(offset).n]))
             ELSE /\ pc[f] = "idle"
                  /\ request' = [request EXCEPT ![f] =
                         [route |-> "get_collection_items", args |-> args,
                          body |-> ""]]
                  /\ Respond(f, ServerErrorPage)
                  /\ UNCHANGED frame
    \/ /\ Returned(f, "get_collection_items")
       /\ Respond(f, IF ~ret[f]["success"] THEN ErrorReply(ret[f])
                     ELSE IF ~ret[f]["data"].isdict THEN ServerErrorPage
                     ELSE JsonReply(200,
                              [success |-> TRUE,
                               items |-> Get(ret[f]["data"].d, "items", <<>>),
                               pagination |->
                                   Get(ret[f]["data"].d, "pagination", <<>>)]))
       /\ UNCHANGED <<request, frame>>

\* lines 513-537: every exception of the body is answered with 500
publish_site(f) ==
    \/ \E body \in PublishBodies :
         IF body = "malformed"
         THEN /\ pc[f] = "idle"
              /\ request' = [request EXCEPT ![f] =
                     [route |-> "publish_site", args |-> <<>>, body |-> body]]
              /\ Respond(f, JsonReply(500,
                     [success |-> FALSE,
                      error |-> Msg("Server error during publish: {e}",
                                    <<"BadRequest">>)]))
              /\ UNCHANGED frame
         ELSE Enter(f, "publish_site", <<>>, body,
                    NewCall("POST", Msg("/sites/{site_id}/publish", <<"site1">>),
                            IF body = "custom_domains"
                            THEN [publishToWebflowSubdomain |-> TRUE,
                                  customDomains |-> <<"example.com">>]
                            ELSE [publishToWebflowSubdomain |-> TRUE],
                            None))
    \/ /\ Returned(f, "publish_site")
       /\ Respond(f, IF ret[f]["success"]
                     THEN JsonReply(200,
                              [success |-> TRUE,
                               message |-> "Site published successfully"])
                     ELSE ErrorReply(ret[f]))
       /\ UNCHANGED <<request, frame>>

\* lines 550-553: the body of the answer after get_sites() returned
HealthReply(result) ==
    JsonReply(200, [success |-> result["success"],
                    error |-> IF ~result["success"] THEN result["error"]
                              ELSE None])

\* lines 540-553
health_check(f) ==
    \/ /\ pc[f] = "idle"
       /\ ~Truthy(api_token)
       /\ request' = [request EXCEPT ![f] =
              [route |-> "health_check", args |-> <<>>, body |-> ""]]
       /\ Respond(f, JsonReply(400,
              [success |-> FALSE,
               error |-> Text("API token not configured. Please add WEBFLOW_API_TOKEN to your .env file.")]))
       /\ UNCHANGED frame
    \/ /\ Truthy(api_token)
       /\ Enter(f, "health_check", <<>>, "",
                NewCall("GET", Text("/sites"), None, None))
    \/ /\ Returned(f, "health_check")
       /\ Respond(f, HealthReply(ret[f]))
       /\ UNCHANGED <<request, frame>>

Failed(r) == ~r["success"]
Succeeded(r) == r["success"]

\* lines 433-437 and 487-491: one line of error_details per failed batch
BatchInfo(n, batch_result) ==
    IF "details" \in DOMAIN batch_result
    THEN Msg("Batch {i+1}: {error} | Details: {details}",
             <<n, batch_result["error"], batch_result["details"]>>)
    ELSE Msg("Batch {i+1}: {error}", <<n, batch_result["error"]>>)

\* lines 426-456 and 480-510: the answer of a bulk route, from the submitted
\* list and the results of the bulk method
BulkReply(verb, items_data, results) ==
    LET successful_batches == SelectSeq(results, Succeeded)
        failed_batches == SelectSeq(results, Failed)
    IN  IF failed_batches # <<>>
        THEN JsonReply(400,
                 [success |-> FALSE,
                  error |-> Msg("{failed} out of {total} batches failed",
                                <<Len(failed_batches), Len(results)>>),
                  successful_batches |-> Len(successful_batches),
                  failed_batches |-> Len(failed_batches),
                  error_details |->
                      [n \in 1..Len(failed_batches) |->
                          BatchInfo(n, failed_batches[n])],
                  results |-> results])
        ELSE JsonReply(200,
                 [success |-> TRUE,
                  message |-> Msg("Successfully {verb} {items} items in {batches} batches",
                                  <<verb, Len(items_data), Len(results)>>),
                  results |-> results])

NO_ITEMS(what) ==
    JsonReply(400, [success |-> FALSE,
                    error |-> Msg("No items provided for {what}", <<what>>)])

\* lines 405-424 and 459-478: the route reads the list and hands it to the
\* bulk method; an empty list is refused
BulkEnter(f, route, what, begin) ==
    /\ pc[f] = "idle"
    /\ request' = [request EXCEPT ![f] =
           [route |-> route, args |-> <<>>, body |-> "items"]]
    /\ \E n \in Lens, pattern \in Patterns, kind \in SpecialKinds :
       \E pos \in {0} \cup SpecialPositions(n) :
         /\ pos = 0 => kind = "bare"
         /\ pos # 0 => pattern = "all_kept"
         /\ LET items_data == ItemList(n, pattern, pos, kind)
            IN  IF items_data = <<>>
                THEN /\ Respond(f, NO_ITEMS(what))
                     /\ UNCHANGED frame
                ELSE /\ frame' = [frame EXCEPT ![f] =
                            [NoFrame EXCEPT !.items_data = items_data]]
                     /\ pc' = [pc EXCEPT ![f] = begin]
                     /\ UNCHANGED <<api_token, last_request_time, now,
                                    network, call, ret, reply, cleanVars>>

\* lines 405-456
create_collection_items(f) ==
    \/ BulkEnter(f, "create_collection_items", "creation", "create_begin")
    \/ /\ pc[f] = "create_respond"
       /\ Respond(f, BulkReply("created", frame[f].items_data, frame[f].results))
       /\ UNCHANGED <<request, frame>>

\* lines 459-510
update_collection_items(f) ==
    \/ BulkEnter(f, "update_collection_items", "update", "update_begin")
    \/ /\ pc[f] = "update_respond"
       /\ Respond(f, BulkReply("updated", frame[f].items_data, frame[f].results))
       /\ UNCHANGED <<request, frame>>

-----------------------------------------------------------------------------
(* The clock, and flows that serve one request after another *)

\* the clock advances
Tick ==
    /\ now < MaxTime
    /\ now' = now + 1
    /\ UNCHANGED <<api_token, last_request_time, network, pc, call, ret,
                   flowVars, cleanVars>>

\* a flow that has answered is free for the next inbound request
NextRequest(f) ==
    /\ pc[f] = "done"
    /\ Len(network) < MaxCalls
    /\ pc' = [pc EXCEPT ![f] = "idle"]
    /\ request' = [request EXCEPT ![f] = NoRequest]
    /\ frame' = [frame EXCEPT ![f] = NoFrame]
    /\ reply' = [reply EXCEPT ![f] = NoReply]
    /\ UNCHANGED <<api_token, last_request_time, now, network, call, ret,
                   cleanVars>>

-----------------------------------------------------------------------------
(* Specifications *)

MakeRequestSteps(f, responses, errors) ==
    \/ MakeRequest(f)
    \/ RateLimitDelay(f)
    \/ SleepReturn(f)
    \/ SendRequest(f)
    \/ ReceiveResponse(f, responses)
    \/ TransportError(f, errors)
    \/ ClassifyResponse(f)

\* One flow handles one request of any route, the clock advancing only
\* through the sleeps of the flow.
Init ==
    /\ InitProgram
    /\ field_data = <<>>
    /\ cleaned_data = <<>>

Next ==
    \/ get_sites(MainFlow)
    \/ get_collections(MainFlow)
    \/ get_collection_schema(MainFlow)
    \/ get_collection_items(MainFlow)
    \/ publish_site(MainFlow)
    \/ health_check(MainFlow)
    \/ create_collection_items(MainFlow)
    \/ CreateBegin(MainFlow)
    \/ CreateChunk(MainFlow)
    \/ CreateChunkDone(MainFlow)
    \/ update_collection_items(MainFlow)
    \/ UpdateBegin(MainFlow)
    \/ UpdateChunk(MainFlow)
    \/ UpdateChunkDone(MainFlow)
    \/ MakeRequestSteps(MainFlow, CoreResponses, CoreErrors)

Spec == Init /\ [][Next]_vars

\* One call of _make_request (through GET /api/sites), every response.
NextRequestOnly ==
    \/ get_sites(MainFlow)
    \/ MakeRequestSteps(MainFlow, Responses, TransportErrors)

SpecRequest == Init /\ [][NextRequestOnly]_vars

\* Two flows serve GET /api/sites requests concurrently while the clock runs;
\* the upstream answers every call.
NextTimed ==
    \/ \E f \in Flows :
          \/ get_sites(f)
          \/ MakeRequest(f)
          \/ RateLimitDelay(f)
          \/ SleepReturn(f)
          \/ SendRequest(f)
          \/ ReceiveResponse(f, TimedResponses)
          \/ ClassifyResponse(f)
          \/ NextRequest(f)
    \/ Tick

SpecTimed == Init /\ [][NextTimed]_vars

-----------------------------------------------------------------------------
(* clean_field_data called on its own *)

FieldKeys == {"tags", "categories", "name", "image"}
FieldValues ==
    { None, Str(NULL_STR), Str(UNDEFINED_STR), Str(<<>>), Str(<<" ">>),
      Str(<<" ", "\t">>), Str(<<"v">>), Str(<<" ", "v", " ">>),
      Str(<<"{", "}">>), Str(<<"{", "\"", "a", "\"", ":", "1", "}">>),
      Str(<<"{", "a", "}">>), Str(<<"{">>),
      List(<<>>), List(<<"ref1">>), Num(0), Dict(<<>>) }
FieldInputs ==
    UNION { [K -> FieldValues] :
              K \in {S \in SUBSET FieldKeys : Cardinality(S) <= MaxFields} }

InitClean ==
    /\ InitProgram
    /\ api_token = None
    /\ field_data \in FieldInputs
    /\ cleaned_data = <<>>

CleanFieldData ==
    /\ pc[MainFlow] = "idle"
    /\ cleaned_data' = clean_field_data(field_data)
    /\ pc' = [pc EXCEPT ![MainFlow] = "done"]
    /\ UNCHANGED <<api_token, last_request_time, now, network, call, ret,
                   flowVars, field_data>>

SpecClean == InitClean /\ [][CleanFieldData]_vars

-----------------------------------------------------------------------------
(* Properties *)

BulkRoutes == {"create_collection_items", "update_collection_items"}
IsUpdate(f) == request[f].route = "update_collection_items"
IsCreate(f) == request[f].route = "create_collection_items"

\* the bulk method of flow f is past its validation loop
Validated(f) ==
    /\ request[f].route \in BulkRoutes
    /\ pc[f] \notin {"idle", "create_begin", "update_begin"}
    /\ frame[f].items_data # <<>>

\* the route of flow f has answered
Answered(f) == pc[f] = "done"

\* an item the validation loop of the route must refuse
Lacks(route, item) ==
    \/ "fieldData" \notin DOMAIN item
    \/ route = "update_collection_items" /\ "id" \notin DOMAIN item
Offending(route, items) == {n \in 1..Len(items) : Lacks(route, items[n])}

\* the upstream calls flow f has issued, in order
CallsOf(f) == SelectSeq(network, LAMBDA w : w.flow = f)

(* C1: when any item of the list submitted to update_collection_items lacks
   'id' or 'fieldData', or any item submitted to create_collection_items
   lacks 'fieldData', at whatever position, the bulk method returns exactly
   one failure result and no upstream HTTP call is ever made. *)
C1_ValidationShortCircuit ==
    \A f \in Flows :
        (Validated(f) /\ Offending(request[f].route, frame[f].items_data) # {})
        => /\ Len(frame[f].results) = 1
           /\ ~frame[f].results[1]["success"]
           /\ network = <<>>

\* an update of more than one chunk, with a token, whose only offending item
\* lies beyond the first chunk, has been answered
C1_Witness ==
    \E f \in Flows :
        /\ Answered(f) /\ IsUpdate(f) /\ Truthy(api_token)
        /\ Offending(request[f].route, frame[f].items_data) # {}
        /\ \A n \in Offending(request[f].route, frame[f].items_data) :
               n > chunk_size
        /\ reply[f].status = 400
        /\ Len(frame[f].results) = 1

Ceil(n, d) == (n + d - 1) \div d

\* a bulk route has answered after the validation of its method found
\* nothing to refuse
Completed(f) ==
    /\ Validated(f)
    /\ Answered(f)
    /\ Offending(request[f].route, frame[f].items_data) = {}

\* the cleaned sequence: every submitted item that keeps a field, cleaned, in
\* the submitted order
CleanedSequence(f) ==
    IF IsUpdate(f) THEN CleanUpdateChunk(frame[f].items_data)
    ELSE CleanCreateItems(frame[f].items_data)

\* items [100(k-1), 100k) of a sequence, for k = 1, 2, ...
Window(seq, k) ==
    SubSeq(seq, chunk_size * (k - 1) + 1,
           IF chunk_size * k < Len(seq) THEN chunk_size * k ELSE Len(seq))

\* the item lists flow f has sent upstream, in order
BodiesOf(f) ==
    LET calls == CallsOf(f)
    IN  [k \in 1..Len(calls) |-> calls[k].data.items]

RECURSIVE Concat(_)
Concat(seqs) == IF seqs = <<>> THEN <<>> ELSE Head(seqs) \o Concat(Tail(seqs))

NonEmptySeq(s) == s # <<>>

\* chunking of the cleaned sequence: ceil(N/100) results, and with a token
\* ceil(N/100) calls, call k carrying window k of the cleaned sequence
ChunksCleaned(f) ==
    LET cleaned == CleanedSequence(f)
        chunks == Ceil(Len(cleaned), chunk_size)
    IN  /\ Len(frame[f].results) = chunks
        /\ Truthy(api_token) =>
              BodiesOf(f) = [k \in 1..chunks |-> Window(cleaned, k)]

\* chunking of the submitted list: ceil(M/100) results, and with a token one
\* call for each window of the submitted list that keeps an item, carrying
\* the cleaned survivors of that window
ChunksSubmitted(f) ==
    LET items == frame[f].items_data
        chunks == Ceil(Len(items), chunk_size)
        survivors == [k \in 1..chunks |-> CleanUpdateChunk(Window(items, k))]
    IN  /\ Len(frame[f].results) = chunks
        /\ Truthy(api_token) => BodiesOf(f) = SelectSeq(survivors, NonEmptySeq)

\* concatenating the sent chunks gives the cleaned sequence; none exceeds 100
ChunksCover(f) ==
    LET bodies == BodiesOf(f)
    IN  /\ \A k \in 1..Len(bodies) : Len(bodies[k]) <= chunk_size
        /\ (Completed(f) /\ Truthy(api_token)) =>
              Concat(bodies) = CleanedSequence(f)

(* C2 as stated: for create and for update alike, when N items survive
   cleaning there are ceil(N/100) chunks and chunk results, and chunk k
   holds the cleaned items [100k, 100k+100) of the cleaned sequence. *)
C2_Original ==
    \A f \in Flows : Completed(f) => ChunksCleaned(f)

(* C2: create_collection_items chunks the cleaned sequence as stated.
   update_collection_items chunks the submitted list before cleaning: for M
   submitted items there are ceil(M/100) chunk results, chunk k holds the
   cleaned survivors of the submitted items [100k, 100k+100), and a chunk
   without survivors gets a success result and no upstream call.  For both,
   the sent chunks concatenated in order are the cleaned sequence and no
   chunk exceeds 100 items. *)
C2_Chunking ==
    \A f \in Flows :
        /\ request[f].route \in BulkRoutes => ChunksCover(f)
        /\ (Completed(f) /\ IsCreate(f)) => ChunksCleaned(f)
        /\ (Completed(f) /\ IsUpdate(f)) => ChunksSubmitted(f)

\* an update with a token has been answered after two or more upstream calls,
\* with more chunk results than ceil(N/100)
C2_Witness ==
    \E f \in Flows :
        /\ Answered(f) /\ Completed(f) /\ IsUpdate(f) /\ Truthy(api_token)
        /\ Len(CallsOf(f)) >= 2
        /\ Len(frame[f].results) > Ceil(Len(CleanedSequence(f)), chunk_size)

-----------------------------------------------------------------------------

\* the positions of flow f inside one iteration of a chunk loop, from the
\* call of _make_request to its return
InCall == {"make_request", "rate_limit", "sleep", "send", "await",
           "classify", "returned"}
InLoop == InCall \cup {"update_loop", "create_loop"}

\* the bulk method of flow f passed its validation
Passed(f) ==
    Validated(f) /\ Offending(request[f].route, frame[f].items_data) = {}

\* the list the chunk loop of flow f runs over, and its number of chunks
ChunkInputs(f) ==
    IF IsUpdate(f) THEN frame[f].items_data ELSE frame[f].clean_items
ChunkCount(f) == Ceil(Len(ChunkInputs(f)), chunk_size)

\* what chunk k of flow f has to send upstream; <<>> when it sends nothing
PayloadOf(f, k) ==
    IF IsUpdate(f) THEN CleanUpdateChunk(Window(frame[f].items_data, k))
    ELSE Window(frame[f].clean_items, k)

\* two result dicts of the same kind: the same keys, the same success flag
\* and the same error message format
SameResult(a, b) ==
    /\ DOMAIN a = DOMAIN b
    /\ a["success"] = b["success"]
    /\ "error" \in DOMAIN a => a["error"].fmt = b["error"].fmt

\* result r is what _make_request returns for the recorded upstream call w
IsOutcomeOf(r, w) ==
    IF w.response = NoResponse
    THEN \E exc \in TransportErrors : SameResult(r, TransportFailure(exc))
    ELSE IF RemainingAction(w.response.headers) = "raise"
    THEN SameResult(r, Failure(Msg("Unexpected error: {e}", <<"ValueError">>)))
    ELSE \E d \in DecodeErrorClasses : r = Classify(w.response, d)

\* the chunks handled so far that went upstream, and whether the call in
\* progress has gone upstream
Dispatched(f) ==
    {k \in 1..Len(frame[f].results) :
        ~SameResult(frame[f].results[k], NO_VALID_ITEMS)}
Dispatching(f) ==
    \/ pc[f] \in {"await", "classify", "returned"}
    \/ pc[f] = "sleep" /\ call[f].after = "classify"

\* while the loop runs: one result for each chunk already handled, and the
\* call about to be made carries the next chunk
LoopInOrder(f) ==
    LET fr == frame[f]
    IN  /\ fr.i = chunk_size * Len(fr.results)
        /\ Len(fr.results) <= ChunkCount(f)
        /\ pc[f] \in InCall => Len(fr.results) < ChunkCount(f)
        /\ pc[f] = "make_request" =>
              call[f].data.items = PayloadOf(f, Len(fr.results) + 1)
        /\ Truthy(api_token) =>
              Len(CallsOf(f)) = Cardinality(Dispatched(f))
                                  + (IF Dispatching(f) THEN 1 ELSE 0)

\* after the loop: one result per chunk, result k being the outcome of the
\* call made for chunk k
OneResultPerChunk(f) ==
    LET results == frame[f].results
        calls == CallsOf(f)
        payloads == SubSeq([k \in 1..ChunkCount(f) |-> PayloadOf(f, k)],
                           1, ChunkCount(f))
        sent(k) == Cardinality({j \in 1..k : payloads[j] # <<>>})
    IN  /\ Len(results) = ChunkCount(f)
        /\ Truthy(api_token) =>
              /\ Len(calls) = sent(ChunkCount(f))
              /\ \A k \in 1..ChunkCount(f) :
                    IF payloads[k] = <<>>
                    THEN SameResult(results[k], NO_VALID_ITEMS)
                    ELSE /\ calls[sent(k)].data.items = payloads[k]
                         /\ IsOutcomeOf(results[k], calls[sent(k)])

\* the counts the route derives from the results
CountsAddUp(f) ==
    LET results == frame[f].results
        failed == {k \in 1..Len(results) : ~results[k]["success"]}
        body == reply[f].body
    IN  IF failed = {}
        THEN /\ reply[f].status = 200
             /\ body["results"] = results
        ELSE /\ reply[f].status = 400
             /\ body["results"] = results
             /\ body["failed_batches"] = Cardinality(failed)
             /\ body["successful_batches"] = Len(results) - Cardinality(failed)
             /\ body["successful_batches"] + body["failed_batches"]
                   = ChunkCount(f)

(* C3: in a bulk call that passed validation the chunks are handled one at a
   time in chunk order, every chunk is handled whatever the earlier chunks
   returned, the returned list has one result per chunk at the position of
   the chunk, and the counts of successful and failed chunks the route
   derives add up to the number of chunks. *)
C3_EveryChunkAttempted ==
    \A f \in Flows :
        /\ (Passed(f) /\ pc[f] \in InLoop) => LoopInOrder(f)
        /\ (Passed(f) /\ Answered(f)) =>
              OneResultPerChunk(f) /\ CountsAddUp(f)

\* three chunks were sent, the second failed and the others succeeded, and
\* the route answered with counts 2 and 1
C3_Witness ==
    \E f \in Flows :
        /\ Passed(f) /\ Answered(f)
        /\ Len(CallsOf(f)) = 3
        /\ Len(frame[f].results) = 3
        /\ frame[f].results[1]["success"]
        /\ ~frame[f].results[2]["success"]
        /\ frame[f].results[3]["success"]
        /\ reply[f].body["successful_batches"] = 2
        /\ reply[f].body["failed_batches"] = 1

-----------------------------------------------------------------------------

\* the upstream answered the recorded call w with a well-formed success
\* response: a status below 400, a JSON body, and rate-limit headers that
\* read as integers
Acknowledged(w) ==
    /\ w.response # NoResponse
    /\ w.response.status_code < 400
    /\ w.response.json.ok
    /\ RemainingAction(w.response.headers) # "raise"

\* a create call, with a token, none of whose items loses all its fields in
\* cleaning, has been answered
CreatedAllKept(f) ==
    /\ Passed(f) /\ Answered(f) /\ IsCreate(f) /\ Truthy(api_token)
    /\ Len(frame[f].clean_items) = Len(frame[f].items_data)

(* C4: create_collection_items called with N items that all keep a field
   after cleaning issues exactly ceil(N/100) upstream POST calls to
   /collections/{collection_id}/items, in the order of the items, each
   carrying 100 items except the last, which carries the remainder, and
   returns one success result per call when the upstream acknowledges every
   call. *)
C4_CreateCalls ==
    \A f \in Flows :
        CreatedAllKept(f) =>
            LET N == Len(frame[f].items_data)
                calls == CallsOf(f)
                results == frame[f].results
            IN  /\ Len(calls) = Ceil(N, create_chunk_size)
                /\ Len(network) = Len(calls)
                /\ \A k \in 1..Len(calls) :
                      /\ calls[k].method = "POST"
                      /\ calls[k].endpoint = ItemsEndpoint("col1")
                      /\ DOMAIN calls[k].data = {"items"}
                      /\ calls[k].data.items =
                            SubSeq(frame[f].clean_items,
                                   create_chunk_size * (k - 1) + 1,
                                   create_chunk_size * (k - 1)
                                     + Len(calls[k].data.items))
                      /\ Len(calls[k].data.items) =
                            IF k < Len(calls) THEN create_chunk_size
                            ELSE N - create_chunk_size * (Len(calls) - 1)
                /\ (\A k \in 1..Len(calls) : Acknowledged(calls[k])) =>
                      /\ Len(results) = Len(calls)
                      /\ \A k \in 1..Len(results) :
                            /\ results[k]["success"]
                            /\ results[k]["data"] = calls[k].response.json
                      /\ reply[f].status = 200
                      /\ reply[f].body["success"]

\* 150 items were created in two acknowledged calls of 100 and 50 items
C4_Witness ==
    \E f \in Flows :
        /\ CreatedAllKept(f)
        /\ Len(frame[f].items_data) = 150
        /\ Len(CallsOf(f)) = 2
        /\ Len(CallsOf(f)[1].data.items) = 100
        /\ Len(CallsOf(f)[2].data.items) = 50
        /\ \A k \in 1..2 : Acknowledged(CallsOf(f)[k])
        /\ Len(frame[f].results) = 2
        /\ \A k \in 1..2 : frame[f].results[k]["success"]
        /\ reply[f].status = 200

-----------------------------------------------------------------------------

\* WEBFLOW_API_TOKEN is unset or set to the empty string
NotConfigured == api_token = None \/ api_token = Str(<<>>)

\* r is the failure 'API token not configured'
IsTokenError(r) ==
    /\ DOMAIN r = {"success", "error"}
    /\ ~r["success"]
    /\ r["error"] = TOKEN_ERROR

(* C7: when no API token is configured every call of _make_request, for any
   method and endpoint, and so every chunk of a bulk create or update,
   returns the failure 'API token not configured' without a network call,
   without entering the rate limiter and without changing
   last_request_time. *)
C7_NoTokenNoCall ==
    NotConfigured =>
        /\ network = <<>>
        /\ last_request_time = 0
        /\ now = StartTime
        /\ \A f \in Flows :
              /\ pc[f] \notin {"rate_limit", "sleep", "send", "await", "classify"}
              /\ pc[f] = "returned" => IsTokenError(ret[f])
              /\ call[f].current_time = 0 /\ call[f].wake = 0
              /\ Passed(f) =>
                    \A k \in 1..Len(frame[f].results) :
                        \/ IsTokenError(frame[f].results[k])
                        \/ SameResult(frame[f].results[k], NO_VALID_ITEMS)

\* without a token, the second chunk of a bulk update has come back from
\* _make_request
C7_Witness ==
    \E f \in Flows :
        /\ NotConfigured
        /\ pc[f] = "returned"
        /\ call[f].method = "PATCH"
        /\ Len(frame[f].results) = 1
        /\ IsTokenError(frame[f].results[1])
        /\ IsTokenError(ret[f])

-----------------------------------------------------------------------------

\* flow f is in _rate_limit_delay or between it and the HTTP call
RateLimited(f) ==
    \/ pc[f] = "send"
    \/ pc[f] = "sleep" /\ call[f].after = "send"

\* what _rate_limit_delay decided from the elapsed time it computed: below
\* the spacing it sleeps what is missing, otherwise it does not sleep
DelayAsComputed(f) ==
    LET c == call[f]
    IN  IF c.time_since_last_request < Seconds(min_delay)
        THEN /\ c.wake = c.current_time
                           + (Seconds(min_delay) - c.time_since_last_request)
             /\ pc[f] = "send" => now >= c.wake
        ELSE /\ c.wake = c.current_time
             /\ pc[f] = "send"

(* C5: within one sequential flow, _rate_limit_delay makes any two
   consecutive outbound calls start at least the minimum spacing apart: when
   the time elapsed since the stored timestamp is below the spacing the
   caller is blocked for at least the spacing minus the elapsed time, when
   it is at or above the spacing no delay is added, and in both cases the
   stored timestamp is the time at which the call goes out after the
   possible wait. *)
C5_SequentialSpacing ==
    /\ \A m, n \in 1..Len(network) :
          (m < n /\ network[m].flow = network[n].flow) =>
              network[n].at - network[m].at >= Seconds(min_delay)
    /\ network # <<>> => last_request_time = network[Len(network)].at
    /\ \A f \in Flows : RateLimited(f) => DelayAsComputed(f)

\* a flow has sent its second call exactly the minimum spacing after its
\* first, no other flow having called in between
C5_Witness ==
    \E f \in Flows :
        /\ pc[f] = "await"
        /\ Len(network) = 2
        /\ network[1].flow = f /\ network[2].flow = f
        /\ network[2].at - network[1].at = Seconds(min_delay)

(* C6 as stated: when two or more inbound requests are handled concurrently
   against the one WebflowAPI instance, no interleaving lets two flows both
   read last_request_time, both conclude that no wait is needed, and both
   issue upstream calls less than the minimum spacing apart. *)
C6_Serialized ==
    \A m, n \in 1..Len(network) :
        m < n => network[n].at - network[m].at >= Seconds(min_delay)

\* two flows have both read the timestamp before either wrote it, and their
\* calls have gone out at the same time
C6_Burst ==
    /\ Len(network) = 2
    /\ network[1].flow # network[2].flow
    /\ network[1].at = network[2].at

-----------------------------------------------------------------------------

\* _make_request of flow f has returned after a response was received
Classified(f) ==
    /\ pc[f] = "returned"
    /\ call[f].response # NoResponse

IsFailure(r, fmt, args) ==
    /\ ~r["success"]
    /\ r["error"].fmt = fmt
    /\ r["error"].args = args

\* the fixed failures of 401, 404 and 429
FixedStatus(resp, r) ==
    /\ resp.status_code = 401 =>
          /\ IsFailure(r, INVALID_TOKEN.fmt, <<>>)
          /\ DOMAIN r = {"success", "error"}
    /\ resp.status_code = 404 =>
          /\ IsFailure(r, NOT_FOUND.fmt, <<>>)
          /\ DOMAIN r = {"success", "error"}
    /\ resp.status_code = 429 =>
          /\ IsFailure(r, "Rate limit exceeded. Please wait {retry_after} seconds.",
                       << IF "Retry-After" \in DOMAIN resp.headers
                          THEN resp.headers["Retry-After"]
                          ELSE <<"6", "0">> >>)
          /\ DOMAIN r = {"success", "error"}

OtherClientError(resp) ==
    resp.status_code >= 400 /\ resp.status_code \notin {401, 404, 429}

\* a failure carrying the message of the body, or the generic one, with the
\* status code, and the details or errors of the body when it has any
CarriesBody(resp, r) ==
    LET body == resp.json.d
    IN  /\ IF "message" \in DOMAIN body
           THEN IsFailure(r, body["message"], <<>>)
           ELSE IsFailure(r, "HTTP {status_code} error", <<resp.status_code>>)
        /\ "status_code" \in DOMAIN r
        /\ r["status_code"] = resp.status_code
        /\ "details" \in DOMAIN r <=>
              ("details" \in DOMAIN body \/ "errors" \in DOMAIN body)
        /\ "details" \in DOMAIN r =>
              r["details"] = IF "details" \in DOMAIN body THEN body["details"]
                             ELSE body["errors"]

\* a status below 400 with a parseable body is a success carrying the payload
CarriesPayload(resp, r) ==
    (resp.status_code < 400 /\ resp.json.ok) =>
        /\ r["success"]
        /\ DOMAIN r = {"success", "data"}
        /\ r["data"] = resp.json

(* C8 as stated: _make_request classifies every received response by its
   status code alone: 401 gives the fixed invalid-token failure whatever the
   body, 404 the fixed not-found failure, 429 a failure whose message holds
   the Retry-After value or 60, any other status >= 400 a failure carrying
   the message of the body (or the generic 'HTTP <code> error') plus
   status_code and optional details, and a status < 400 with a parseable
   body a success carrying the payload. *)
C8_Original ==
    \A f \in Flows :
        Classified(f) =>
            LET resp == call[f].response
                r == ret[f]
            IN  /\ FixedStatus(resp, r)
                /\ OtherClientError(resp) => CarriesBody(resp, r)
                /\ CarriesPayload(resp, r)

(* C8: a response whose X-RateLimit-Remaining header is not empty and does
   not read as an integer gives the failure 'Unexpected error', whatever its
   status.  Any other response is classified by its status as stated, except
   that a status >= 400 other than 401, 404 and 429 carries status_code and
   optional details only when its body is a JSON object; when the body is
   not, the failure is 'HTTP <code> error - could not parse response' with
   no status_code.  A status < 400 with an unparseable body, and a transport
   failure, are failures too: _make_request always returns a result. *)
C8_Classification ==
    \A f \in Flows :
        /\ Classified(f) =>
              LET resp == call[f].response
                  r == ret[f]
              IN  IF RemainingAction(resp.headers) = "raise"
                  THEN /\ IsFailure(r, "Unexpected error: {e}", <<"ValueError">>)
                       /\ DOMAIN r = {"success", "error"}
                  ELSE /\ FixedStatus(resp, r)
                       /\ (OtherClientError(resp) /\ resp.json.isdict) =>
                             CarriesBody(resp, r)
                       /\ (OtherClientError(resp) /\ ~resp.json.isdict) =>
                             /\ IsFailure(r, "HTTP {status_code} error - could not parse response",
                                          <<resp.status_code>>)
                             /\ DOMAIN r = {"success", "error"}
                       /\ CarriesPayload(resp, r)
                       /\ (resp.status_code < 400 /\ ~resp.json.ok) =>
                             /\ ~r["success"]
                             /\ DOMAIN r = {"success", "error"}
        /\ (pc[f] = "returned" /\ Truthy(api_token)
              /\ call[f].response = NoResponse) =>
              /\ ~ret[f]["success"]
              /\ DOMAIN ret[f] = {"success", "error"}
        /\ pc[f] \in {"idle", "make_request", "rate_limit", "sleep", "send",
                       "await", "classify", "returned", "done"}

\* a 500 whose body is not JSON has come back as a failure without
\* status_code
C8_Witness ==
    \E f \in Flows :
        /\ Classified(f)
        /\ call[f].response.status_code = 500
        /\ ~call[f].response.json.ok
        /\ RemainingAction(call[f].response.headers) = "none"
        /\ ~ret[f]["success"]
        /\ "status_code" \notin DOMAIN ret[f]

-----------------------------------------------------------------------------

\* clean_field_data has returned cleaned_data for field_data
Cleaned == pc[MainFlow] = "done" /\ request[MainFlow] = NoRequest

IsNullMarker(v) == v = None \/ v = Str(NULL_STR) \/ v = Str(UNDEFINED_STR)
IsEmptyList(v) == IsList(v) /\ v.l = <<>>
IsBlank(v) == IsStr(v) /\ \A i \in 1..Len(v.s) : v.s[i] \in Whitespace
IsEmptyStr(v) == IsStr(v) /\ v.s = <<>>

(* C9: for every input mapping, clean_field_data returns a mapping whose keys
   are keys of the input, in which no key whose value was the string "null",
   the string "undefined" or None is present, no reference-field key (tags,
   gallery, categories) whose value was an empty list or an empty or
   whitespace-only string is present, and every other key whose value was an
   empty list or an empty string is present with its value unchanged. *)
C9_CleanFieldData ==
    Cleaned =>
        /\ DOMAIN cleaned_data \subseteq DOMAIN field_data
        /\ \A k \in DOMAIN field_data :
              LET v == field_data[k]
              IN  /\ IsNullMarker(v) => k \notin DOMAIN cleaned_data
                  /\ (k \in {"tags", "gallery", "categories"}
                        /\ (IsEmptyList(v) \/ IsBlank(v)))
                       => k \notin DOMAIN cleaned_data
                  /\ (k \notin {"tags", "gallery", "categories"}
                        /\ (IsEmptyList(v) \/ IsEmptyStr(v)))
                       => /\ k \in DOMAIN cleaned_data
                          /\ cleaned_data[k] = v

\* a blank reference field was dropped and an empty string under another key
\* was kept
C9_Witness ==
    /\ Cleaned
    /\ DOMAIN field_data = {"tags", "name"}
    /\ field_data["tags"] = Str(<<" ", "\t">>)
    /\ field_data["name"] = Str(<<>>)
    /\ DOMAIN cleaned_data = {"name"}
    /\ cleaned_data["name"] = Str(<<>>)

-----------------------------------------------------------------------------

\* the answer of flow f says success=false in its body
ReportsFailure(f) ==
    /\ "success" \in DOMAIN reply[f].body
    /\ ~reply[f].body["success"]

(* C10 as stated: for every inbound endpoint, GET /api/health included, an
   answer whose body reports success=false because of a validation or
   upstream error has HTTP status 400 (500 only for unexpected exceptions),
   and HTTP 200 is returned only with success=true. *)
C10_StatusMatchesSuccess ==
    \A f \in Flows :
        Answered(f) =>
            /\ reply[f].status \in {200, 400, 500}
            /\ ReportsFailure(f) => reply[f].status \in {400, 500}
            /\ reply[f].status = 200 =>
                  /\ "success" \in DOMAIN reply[f].body
                  /\ reply[f].body["success"]

\* GET /api/health, with a token the upstream refuses, has answered 200 with
\* success=false
C10_HealthFailure200 ==
    \E f \in Flows :
        /\ Answered(f)
        /\ request[f].route = "health_check"
        /\ Truthy(api_token)
        /\ Len(network) = 1
        /\ network[1].response.status_code = 401
        /\ reply[f].status = 200
        /\ ReportsFailure(f)

-----------------------------------------------------------------------------

\* the submitted items whose 'id' is present and is the empty string
EmptyIds(items) ==
    {n \in 1..Len(items) : Has(items[n], "id") /\ items[n]["id"] = ""}

(* C11 as stated: update_collection_items rejects an item whose 'id' is
   present but is the empty string: the call returns a single failure result
   naming the item and makes no upstream call, exactly as for an item with no
   'id' key. *)
C11_EmptyIdRejected ==
    \A f \in Flows :
        (Answered(f) /\ IsUpdate(f) /\ Truthy(api_token)
           /\ EmptyIds(frame[f].items_data) # {})
        => /\ Len(frame[f].results) = 1
           /\ ~frame[f].results[1]["success"]
           /\ network = <<>>

\* an update whose first item has the empty id has been sent upstream with
\* that id and answered with success
C11_EmptyIdSent ==
    \E f \in Flows :
        /\ Answered(f) /\ IsUpdate(f)
        /\ 1 \in EmptyIds(frame[f].items_data)
        /\ network # <<>>
        /\ network[1].method = "PATCH"
        /\ network[1].data.items[1]["id"] = ""
        /\ reply[f].status = 200

-----------------------------------------------------------------------------

\* flow f has received a response whose X-RateLimit-Remaining is below the
\* low-water mark and is in the time.sleep of the extra delay
ExtraDelayed(f) ==
    /\ pc[f] = "sleep"
    /\ call[f].after = "classify"
    /\ RemainingAction(call[f].response.headers) = "sleep"

\* the time at which that response was received
ReceivedAt(f) == call[f].wake - Seconds(extra_delay)

\* the upstream calls that started after the response of flow f was
\* received and before the extra delay was over
StartedDuringExtraDelay(f) ==
    {n \in 1..Len(network) :
        network[n].at > ReceivedAt(f) /\ network[n].at < call[f].wake}

(* C12 as stated: after an upstream response whose X-RateLimit-Remaining
   header is present and below 10, the extra delay of 2 time units applies to
   the shared rate-limiter state, so the next outbound call of any flow, the
   caller or a concurrent one, does not start until at least 2 time units
   after that response was received. *)
C12_ExtraDelayShared ==
    \A f \in Flows : ExtraDelayed(f) => StartedDuringExtraDelay(f) = {}

\* while one flow sleeps the extra delay, the other flow has sent a call
\* less than 2 time units after the response was received, the minimum
\* spacing after the previous call having passed
C12_CallDuringExtraDelay ==
    \E f \in Flows :
        /\ ExtraDelayed(f)
        /\ \E n \in StartedDuringExtraDelay(f) :
              /\ network[n].flow # f
              /\ n > 1
              /\ network[n].at - network[n - 1].at >= Seconds(min_delay)

-----------------------------------------------------------------------------

\* a bulk route has answered success=true
AnsweredSuccess(f) ==
    /\ Answered(f)
    /\ request[f].route \in BulkRoutes
    /\ reply[f].status = 200
    /\ reply[f].body["success"]

\* the item sent upstream is the submitted item: its cleaned fieldData, and
\* for an update its id
Carries(sent, item, update) ==
    LET cleaned == clean_field_data(item["fieldData"])
    IN  /\ update => sent["id"] = item["id"]
        /\ DOMAIN sent["fieldData"] = DOMAIN cleaned
        /\ \A k \in DOMAIN cleaned : sent["fieldData"][k] = cleaned[k]

\* submitted item n of flow f was in the body of an upstream call that the
\* upstream answered with success
SentWithSuccess(f, n) ==
    \E k \in 1..Len(network) :
        /\ network[k].flow = f
        /\ Acknowledged(network[k])
        /\ \E j \in 1..Len(network[k].data.items) :
              Carries(network[k].data.items[j], frame[f].items_data[n],
                      IsUpdate(f))

(* C13 as stated: whenever the bulk-create or bulk-update route answers
   success=true, with a message saying that all len(items) submitted items
   were created or updated, every submitted item was in the body of some
   upstream request that returned success; a success answer is never given
   when no upstream call was made or when an item was dropped because its
   fieldData cleaned to empty. *)
C13_SuccessMeansAllSent ==
    \A f \in Flows :
        AnsweredSuccess(f) =>
            /\ CallsOf(f) # <<>>
            /\ \A n \in 1..Len(frame[f].items_data) : SentWithSuccess(f, n)

\* with a token, a create of items that all clean to empty was answered
\* success=true for all of them, in 0 batches, without any upstream call
C13_SuccessWithoutCalls ==
    \E f \in Flows :
        /\ AnsweredSuccess(f) /\ IsCreate(f) /\ Truthy(api_token)
        /\ network = <<>>
        /\ frame[f].items_data # <<>>
        /\ frame[f].clean_items = <<>>
        /\ reply[f].body["message"].args
              = <<"created", Len(frame[f].items_data), 0>>

====
